---- MODULE Spec2Model ----
(***************************************************************************)
(* Model of the macOS log ingester: the supervisor loop `run`, the         *)
(* incremental stream decoder `decode` with its package-level state `buf`  *)
(* and `first`, and the part of `main` that raises the cancellation.       *)
(* A byte is a one-character string; a byte slice is a sequence of bytes.  *)
(***************************************************************************)
EXTENDS Integers, Sequences, FiniteSets, TLC

(***************************************************************************)
(* Bounds of the model.                                                    *)
(***************************************************************************)
\* successful launches of the producer that the model follows
MaxRuns == 2
\* largest partial read, in bytes (a read may also return all that is left)
MaxChunk == 3

(***************************************************************************)
(* Bytes and byte slices.                                                  *)
(***************************************************************************)
NL == "\n"
QT == "\""

\* []byte("\n},{\n"), the separator decode splits on
Separator == <<NL, "}", ",", "{", NL>>

\* the leading [{\n that decode pops off
Preamble == <<"[", "{", NL>>

PreambleLen == 3

\* b[from:], 0-based from
Drop(b, from) == SubSeq(b, from + 1, Len(b))

\* b[:to]
Take(b, to) == SubSeq(b, 1, to)

\* the separator starts at position i of b (1-based)
HasSepAt(b, i) ==
    /\ i + Len(Separator) - 1 <= Len(b)
    /\ \A k \in 1..Len(Separator) : b[i + k - 1] = Separator[k]

RECURSIVE IndexSepFrom(_, _)
\* the first position from i on where the separator starts, 0 when none
IndexSepFrom(b, i) ==
    IF i + Len(Separator) - 1 > Len(b) THEN 0
    ELSE IF HasSepAt(b, i) THEN i
    ELSE IndexSepFrom(b, i + 1)

\* bytes.Index(b, sep) as a 1-based position, 0 when absent
IndexSep(b) == IndexSepFrom(b, 1)

RECURSIVE Split(_)
\* bytes.Split(b, sep): the pieces between non-overlapping separators,
\* found left to right; k separators give k+1 pieces
Split(b) ==
    LET i == IndexSep(b) IN
    IF i = 0 THEN <<b>>
    ELSE <<Take(b, i - 1)>> \o Split(Drop(b, i - 1 + Len(Separator)))

(***************************************************************************)
(* json.Compact: the scanner of encoding/json restricted to the bytes of   *)
(* the model ([ ] { } , : " newline, letters a b, digits 1 2).  No byte    *)
(* of the model starts a literal, a negative number or an escape.          *)
(***************************************************************************)
IsSpace(c) == c \in {" ", "\t", "\r", NL}

IsControl(c) == c \in {"\t", "\r", NL}

Digits == {"0", "1", "2", "3", "4", "5", "6", "7", "8", "9"}

Top(stack) == stack[Len(stack)]

Pop(stack) == Take(stack, Len(stack) - 1)

SetTop(stack, v) == Pop(stack) \o <<v>>

ScanErr == [step |-> "error", stack |-> <<>>, op |-> "error"]

\* popParseState
PopParseState(stack) ==
    [step |-> IF Len(stack) = 1 THEN "endTop" ELSE "endValue",
     stack |-> Pop(stack), op |-> "continue"]

\* stateEndTop
StateEndTop(stack, c) ==
    IF IsSpace(c) THEN [step |-> "endTop", stack |-> stack, op |-> "skip"]
    ELSE ScanErr

\* stateEndValue
StateEndValue(stack, c) ==
    IF Len(stack) = 0 THEN StateEndTop(stack, c)
    ELSE IF IsSpace(c) THEN [step |-> "endValue", stack |-> stack, op |-> "skip"]
    ELSE IF Top(stack) = "objectKey" THEN
        IF c = ":" THEN [step |-> "beginValue",
                         stack |-> SetTop(stack, "objectValue"), op |-> "continue"]
        ELSE ScanErr
    ELSE IF Top(stack) = "objectValue" THEN
        IF c = "," THEN [step |-> "beginString",
                         stack |-> SetTop(stack, "objectKey"), op |-> "continue"]
        ELSE IF c = "}" THEN PopParseState(stack)
        ELSE ScanErr
    ELSE \* arrayValue
        IF c = "," THEN [step |-> "beginValue", stack |-> stack, op |-> "continue"]
        ELSE IF c = "]" THEN PopParseState(stack)
        ELSE ScanErr

\* stateBeginValue
StateBeginValue(stack, c) ==
    IF IsSpace(c) THEN [step |-> "beginValue", stack |-> stack, op |-> "skip"]
    ELSE IF c = "{" THEN [step |-> "beginStringOrEmpty",
                          stack |-> stack \o <<"objectKey">>, op |-> "continue"]
    ELSE IF c = "[" THEN [step |-> "beginValueOrEmpty",
                          stack |-> stack \o <<"arrayValue">>, op |-> "continue"]
    ELSE IF c = QT THEN [step |-> "inString", stack |-> stack, op |-> "continue"]
    ELSE IF c = "0" THEN [step |-> "num0", stack |-> stack, op |-> "continue"]
    ELSE IF c \in Digits THEN [step |-> "num1", stack |-> stack, op |-> "continue"]
    ELSE ScanErr

\* stateBeginValueOrEmpty
StateBeginValueOrEmpty(stack, c) ==
    IF IsSpace(c) THEN [step |-> "beginValueOrEmpty", stack |-> stack, op |-> "skip"]
    ELSE IF c = "]" THEN StateEndValue(stack, c)
    ELSE StateBeginValue(stack, c)

\* stateBeginString
StateBeginString(stack, c) ==
    IF IsSpace(c) THEN [step |-> "beginString", stack |-> stack, op |-> "skip"]
    ELSE IF c = QT THEN [step |-> "inString", stack |-> stack, op |-> "continue"]
    ELSE ScanErr

\* stateBeginStringOrEmpty
StateBeginStringOrEmpty(stack, c) ==
    IF IsSpace(c) THEN [step |-> "beginStringOrEmpty", stack |-> stack, op |-> "skip"]
    ELSE IF c = "}" THEN StateEndValue(SetTop(stack, "objectValue"), c)
    ELSE StateBeginString(stack, c)

\* stateInString
StateInString(stack, c) ==
    IF c = QT THEN [step |-> "endValue", stack |-> stack, op |-> "continue"]
    ELSE IF IsControl(c) THEN ScanErr
    ELSE [step |-> "inString", stack |-> stack, op |-> "continue"]

\* state0: after a number's integer part
State0(stack, c) == StateEndValue(stack, c)

\* state1: after a non-zero leading digit
State1(stack, c) ==
    IF c \in Digits THEN [step |-> "num1", stack |-> stack, op |-> "continue"]
    ELSE State0(stack, c)

\* scanner.step: one byte through the current state function
ScanStep(step, stack, c) ==
    CASE step = "beginValue" -> StateBeginValue(stack, c)
      [] step = "beginValueOrEmpty" -> StateBeginValueOrEmpty(stack, c)
      [] step = "beginString" -> StateBeginString(stack, c)
      [] step = "beginStringOrEmpty" -> StateBeginStringOrEmpty(stack, c)
      [] step = "inString" -> StateInString(stack, c)
      [] step = "num0" -> State0(stack, c)
      [] step = "num1" -> State1(stack, c)
      [] step = "endValue" -> StateEndValue(stack, c)
      [] step = "endTop" -> StateEndTop(stack, c)
      [] OTHER -> ScanErr

\* scanner.eof: the input is a complete value, possibly after one more space
ScanEof(step, stack) ==
    \/ step = "endTop"
    \/ /\ step # "error"
       /\ ScanStep(step, stack, " ").step = "endTop"

RECURSIVE CompactFrom(_, _, _, _, _)
\* the loop of compact: bytes for which the scanner answers "skip" are
\* left out of the output, an error ends the scan
CompactFrom(d, i, step, stack, out) ==
    IF i > Len(d) THEN [ok |-> ScanEof(step, stack), out |-> out]
    ELSE LET r == ScanStep(step, stack, d[i]) IN
         IF r.op = "error" THEN [ok |-> FALSE, out |-> <<>>]
         ELSE CompactFrom(d, i + 1, r.step, r.stack,
                          IF r.op = "skip" THEN out ELSE Append(out, d[i]))

\* json.Compact(&o, d): ok is err == nil, out is o.Bytes()
Compact(d) == CompactFrom(d, 1, "beginValue", <<>>, <<>>)

(***************************************************************************)
(* The pure part of decode.                                                *)
(***************************************************************************)
\* a pop that takes two bytes instead of three
StripPreamble_TwoBytes(b) == Drop(b, 2)

\* buf = buf[3:], the pop of the leading [{\n
StripPreamble(b) == Drop(b, PreambleLen)

\* one pass of the loop under `if first`: append the bytes read, and once
\* three bytes are there pop them off and clear first
PreambleStep(b, chunk) ==
    LET nb == b \o chunk IN
    IF Len(nb) >= PreambleLen
    THEN [buf |-> StripPreamble(nb), first |-> FALSE, popped |-> Take(nb, PreambleLen)]
    ELSE [buf |-> nb, first |-> TRUE, popped |-> <<>>]

\* d := '{' + e[i] + '}'
Wrap(frag) == <<"{">> \o frag \o <<"}">>

\* the pieces decode consumes: all but the last
Consumed(e) == Take(e, Len(e) - 1)

\* the piece decode keeps as the new buf
Kept(e) == e[Len(e)]

\* a second loop that hands back the pieces compacted before the failure
SplitStep_Partial(b, chunk) ==
    LET nb == b \o chunk
        e == Split(nb)
        c == [i \in 1..Len(Consumed(e)) |-> Compact(Wrap(e[i]))]
        bad == CHOOSE i \in 1..Len(c) : ~c[i].ok /\ \A j \in 1..(i - 1) : c[j].ok
    IN  IF Len(e) <= 1 THEN [kind |-> "more", buf |-> nb, ents |-> <<>>, frags |-> <<>>]
        ELSE IF \E i \in 1..Len(c) : ~c[i].ok
             THEN [kind |-> "err", buf |-> nb,
                   ents |-> [i \in 1..(bad - 1) |-> c[i].out], frags |-> <<>>]
        ELSE [kind |-> "ok", buf |-> Kept(e),
              ents |-> [i \in 1..Len(c) |-> c[i].out], frags |-> Consumed(e)]

\* a second loop that returns as soon as it has read, with or without a
\* complete piece
SplitStep_ReturnsEmpty(b, chunk) ==
    LET nb == b \o chunk
        e == Split(nb)
        c == [i \in 1..Len(Consumed(e)) |-> Compact(Wrap(e[i]))]
    IN  IF \E i \in 1..Len(c) : ~c[i].ok
        THEN [kind |-> "err", buf |-> nb, ents |-> <<>>, frags |-> <<>>]
        ELSE [kind |-> "ok", buf |-> Kept(e),
              ents |-> [i \in 1..Len(c) |-> c[i].out], frags |-> Consumed(e)]

\* one pass of the second loop after a read without error: append, split,
\* and either wait for more ("more"), fail in json.Compact ("err", buf keeps
\* everything appended so far) or return the compacted pieces ("ok")
SplitStep(b, chunk) ==
    LET nb == b \o chunk
        e == Split(nb)
        c == [i \in 1..Len(Consumed(e)) |-> Compact(Wrap(e[i]))]
    IN  IF Len(e) <= 1 THEN [kind |-> "more", buf |-> nb, ents |-> <<>>, frags |-> <<>>]
        ELSE IF \E i \in 1..Len(c) : ~c[i].ok
             THEN [kind |-> "err", buf |-> nb, ents |-> <<>>, frags |-> <<>>]
        ELSE [kind |-> "ok", buf |-> Kept(e),
              ents |-> [i \in 1..Len(c) |-> c[i].out], frags |-> Consumed(e)]

RECURSIVE RunFrom(_, _, _, _)
\* the payloads of the successive decode calls of one producer run whose
\* reads return the given chunks and then an error
RunFrom(b, f, chunks, acc) ==
    IF chunks = <<>> THEN acc
    ELSE IF f THEN LET r == PreambleStep(b, Head(chunks)) IN
                   RunFrom(r.buf, r.first, Tail(chunks), acc)
    ELSE LET r == SplitStep(b, Head(chunks)) IN
         IF r.kind = "err" THEN acc
         ELSE RunFrom(r.buf, FALSE, Tail(chunks), acc \o r.ents)

\* the same, on the decoder state of a program that has just started
RunChunks(chunks) == RunFrom(<<>>, TRUE, chunks, <<>>)

(***************************************************************************)
(* What the producer may write.                                            *)
(***************************************************************************)
ObjA == <<QT, "a", QT, ":", "1">>

ObjB == <<QT, "b", QT, ":", "2">>

Closing == <<NL, "}", "]">>

\* [{\n"a":1\n},{\n"b":2\n}]
StreamAB == Preamble \o ObjA \o Separator \o ObjB \o Closing

\* [{\n"a":1\n},{\n"b":2\n},{\nb\n},{\n\n}] : the third object is not JSON
StreamBad ==
    Preamble \o ObjA \o Separator \o ObjB \o Separator \o <<"b">> \o Separator \o Closing

\* a producer that dies after one byte of the preamble
StreamCutOne == Take(StreamAB, 1)

Streams == <<StreamAB, StreamBad, StreamCutOne>>

\* the streams of Streams that are a preamble followed by valid objects
\* joined by the separator
WellFormedStreams == {1}

(***************************************************************************)
(* State.                                                                  *)
(***************************************************************************)
VARIABLES
    pc,          \* where run is: start, sleep, decode, pre_read, read, submit,
                 \* kill, stopped (run returned), fatal (lg.Fatal left the program)
    buf,         \* var buf []byte
    first,       \* var first = true
    ents,        \* what the last decode call returned
    cmd,         \* the process of the current cmd, 0 when none was started
    live,        \* processes started and not sent a Kill
    runs,        \* processes started so far
    sidx,        \* which of Streams the current process writes
    pos,         \* how many of its bytes decode has read
    cancelled,   \* cancel() was called on ctx
    src,         \* var src net.IP of main: nil, or the Source-Override
    \* what an observer of the program records
    sent,        \* the submit calls so far: run and batch of each
    returned,    \* payloads returned by the decode calls of the current run
    fragsRun,    \* pieces consumed by the decode calls of the current run
    calls,       \* decode calls of the current run
    lastDecode,  \* how the last decode call ended: none, ok, readerr, compacterr
    lastSubmit,  \* result of the last submit call: none, ok, other, canceled
    freshAtLaunch,    \* the decoder state was fresh when the current run began
    bufAtLaunch,      \* buf when the current run began
    firstAtLaunch,    \* first when the current run began
    readPastPreamble, \* a read of the current run succeeded in the second loop
    strips,      \* how many times the three leading bytes were popped
    stripped,    \* the bytes popped
    posAtStrip,  \* pos right after the pop
    keptAtStrip, \* buf right after the pop
    launchesSinceCancel  \* launch attempts begun after cancel(), counted to 2

progVars == <<pc, buf, first, ents, cmd, live, runs, sidx, pos, cancelled, src>>

obsVars == <<sent, returned, fragsRun, calls, lastDecode, lastSubmit, freshAtLaunch, bufAtLaunch, firstAtLaunch,
             readPastPreamble, strips, stripped, posAtStrip, keptAtStrip,
             launchesSinceCancel>>

vars == <<progVars, obsVars>>

\* the configured source override (src stays nil without one) and the tag
\* resolved by igst.GetTag
SrcOverride == "src"

\* the nil net.IP
NilIP == "nil"

Tag == "tag"

Stream == Streams[sidx]

\* the bytes read from the current process so far
StreamRead == Take(Stream, pos)

Fresh == buf = <<>> /\ first

Min(a, b) == IF a < b THEN a ELSE b

\* the goroutine of run is running
Running == pc \notin {"stopped", "fatal"}

Init ==
    /\ pc = "start"
    /\ buf = <<>>
    /\ first = TRUE
    /\ ents = <<>>
    /\ cmd = 0
    /\ live = {}
    /\ runs = 0
    /\ sidx = 1
    /\ pos = 0
    /\ cancelled = FALSE
    /\ src \in {NilIP, SrcOverride}
    /\ sent = <<>>
    /\ returned = <<>>
    /\ fragsRun = <<>>
    /\ calls = 0
    /\ lastDecode = "none"
    /\ lastSubmit = "none"
    /\ freshAtLaunch = TRUE
    /\ bufAtLaunch = <<>>
    /\ firstAtLaunch = TRUE
    /\ readPastPreamble = FALSE
    /\ strips = 0
    /\ stripped = <<>>
    /\ posAtStrip = 0
    /\ keptAtStrip = <<>>
    /\ launchesSinceCancel = 0

(***************************************************************************)
(* run: launching the producer.                                            *)
(***************************************************************************)
CountLaunch ==
    launchesSinceCancel' = IF cancelled THEN Min(launchesSinceCancel + 1, 2)
                           ELSE launchesSinceCancel

\* cmd.StdoutPipe() fails: lg.Fatal logs and exits the program
LaunchPipeFail ==
    /\ Running /\ pc = "start"
    /\ pc' = "fatal"
    /\ cmd' = 0
    /\ CountLaunch
    /\ UNCHANGED <<buf, first, ents, live, runs, sidx, pos, cancelled, src>>
    /\ UNCHANGED <<sent, returned, fragsRun, calls, lastDecode, lastSubmit,
                   freshAtLaunch, bufAtLaunch, firstAtLaunch, readPastPreamble, strips, stripped, posAtStrip,
                   keptAtStrip>>

\* cmd.Start() fails: log, then time.Sleep(PERIOD)
LaunchStartFail ==
    /\ Running /\ pc = "start"
    /\ pc' = "sleep"
    /\ cmd' = 0
    /\ CountLaunch
    /\ UNCHANGED <<buf, first, ents, live, runs, sidx, pos, cancelled, src>>
    /\ UNCHANGED <<sent, returned, fragsRun, calls, lastDecode, lastSubmit,
                   freshAtLaunch, bufAtLaunch, firstAtLaunch, readPastPreamble, strips, stripped, posAtStrip,
                   keptAtStrip>>

\* a sleep that watches ctx and makes run return once it is cancelled
Sleep_ChecksCtx ==
    /\ Running /\ pc = "sleep"
    /\ pc' = IF cancelled THEN "stopped" ELSE "start"
    /\ UNCHANGED <<buf, first, ents, cmd, live, runs, sidx, pos, cancelled, src>>
    /\ UNCHANGED obsVars

\* the sleep is over: continue
Sleep ==
    /\ Running /\ pc = "sleep"
    /\ pc' = "start"
    /\ UNCHANGED <<buf, first, ents, cmd, live, runs, sidx, pos, cancelled, src>>
    /\ UNCHANGED obsVars

\* cmd.Start() succeeds: a new process writes one of Streams
LaunchOk ==
    /\ Running /\ pc = "start"
    /\ runs < MaxRuns
    /\ \E s \in 1..Len(Streams) : sidx' = s
    /\ runs' = runs + 1
    /\ cmd' = runs + 1
    /\ live' = live \cup {runs + 1}
    /\ pos' = 0
    /\ pc' = "decode"
    /\ CountLaunch
    /\ returned' = <<>>
    /\ fragsRun' = <<>>
    /\ calls' = 0
    /\ freshAtLaunch' = Fresh
    /\ bufAtLaunch' = buf
    /\ firstAtLaunch' = first
    /\ readPastPreamble' = FALSE
    /\ UNCHANGED <<buf, first, ents, cancelled, src>>
    /\ UNCHANGED <<sent, lastDecode, lastSubmit, strips, stripped, posAtStrip,
                   keptAtStrip>>

(***************************************************************************)
(* decode.                                                                 *)
(***************************************************************************)
\* the sizes r.Read may return: a few bytes, or all the process has written
ChunkSizes == {n \in 0..MaxChunk : pos + n <= Len(Stream)} \cup {Len(Stream) - pos}

Chunk(n) == SubSeq(Stream, pos + 1, pos + n)

\* run calls decode(out)
DecodeCall ==
    /\ Running /\ pc = "decode"
    /\ pc' = IF first THEN "pre_read" ELSE "read"
    /\ calls' = Min(calls + 1, 2)
    /\ UNCHANGED <<buf, first, ents, cmd, live, runs, sidx, pos, cancelled, src>>
    /\ UNCHANGED <<sent, returned, fragsRun, lastDecode, lastSubmit, freshAtLaunch, bufAtLaunch, firstAtLaunch,
                   readPastPreamble, strips, stripped, posAtStrip, keptAtStrip,
                   launchesSinceCancel>>

\* a read of the loop under `if first` returns n bytes; short of three
\* bytes decode sleeps READ_PERIOD and reads again
PreRead ==
    /\ Running /\ pc = "pre_read"
    /\ \E n \in ChunkSizes :
        LET r == PreambleStep(buf, Chunk(n)) IN
        /\ buf' = r.buf
        /\ first' = r.first
        /\ pos' = pos + n
        /\ pc' = IF r.first THEN "pre_read" ELSE "read"
        /\ strips' = IF r.first THEN strips ELSE strips + 1
        /\ stripped' = IF r.first THEN stripped ELSE r.popped
        /\ posAtStrip' = IF r.first THEN posAtStrip ELSE pos + n
        /\ keptAtStrip' = IF r.first THEN keptAtStrip ELSE r.buf
    /\ UNCHANGED <<ents, cmd, live, runs, sidx, cancelled, src>>
    /\ UNCHANGED <<sent, returned, fragsRun, calls, lastDecode, lastSubmit,
                   freshAtLaunch, bufAtLaunch, firstAtLaunch, readPastPreamble, launchesSinceCancel>>

\* a read returns an error: all the process wrote is read and its output is
\* closed (io.EOF); decode returns nil, err and run breaks out of its loop
ReadErr ==
    /\ Running /\ pc \in {"pre_read", "read"}
    /\ pos = Len(Stream)
    /\ pc' = "kill"
    /\ ents' = <<>>
    /\ lastDecode' = "readerr"
    /\ UNCHANGED <<buf, first, cmd, live, runs, sidx, pos, cancelled, src>>
    /\ UNCHANGED <<sent, returned, fragsRun, calls, lastSubmit, freshAtLaunch, bufAtLaunch, firstAtLaunch,
                   readPastPreamble, strips, stripped, posAtStrip, keptAtStrip,
                   launchesSinceCancel>>

\* a read of the second loop returns n bytes
Read ==
    /\ Running /\ pc = "read"
    /\ \E n \in ChunkSizes :
        LET r == SplitStep(buf, Chunk(n)) IN
        /\ buf' = r.buf
        /\ pos' = pos + n
        /\ ents' = r.ents
        /\ pc' = CASE r.kind = "more" -> "read"
                   [] r.kind = "ok" -> "submit"
                   [] r.kind = "err" -> "kill"
        /\ lastDecode' = CASE r.kind = "more" -> lastDecode
                           [] r.kind = "ok" -> "ok"
                           [] r.kind = "err" -> "compacterr"
        /\ returned' = returned \o r.ents
        /\ fragsRun' = fragsRun \o r.frags
    /\ readPastPreamble' = TRUE
    /\ UNCHANGED <<first, cmd, live, runs, sidx, cancelled, src>>
    /\ UNCHANGED <<sent, calls, lastSubmit, freshAtLaunch, bufAtLaunch, firstAtLaunch, strips, stripped,
                   posAtStrip, keptAtStrip, launchesSinceCancel>>

(***************************************************************************)
(* run: enrichment, submission, kill.                                      *)
(***************************************************************************)
\* an enrichment that leaves SRC unset
Enrich_NoSource(es) == [i \in 1..Len(es) |-> [Data |-> es[i], SRC |-> NilIP,
                                              TS |-> "now", Tag |-> Tag]]

\* the loop over ents: v.SRC = src, v.TS = entry.Now(), v.Tag = tag
Enrich(es) == [i \in 1..Len(es) |-> [Data |-> es[i], SRC |-> src,
                                     TS |-> "now", Tag |-> Tag]]

\* what igst.WriteBatchContext(ctx, ents) may return: nil, context.Canceled
\* once ctx is cancelled, or another error
SubmitResults == {"ok", "other"} \cup (IF cancelled THEN {"canceled"} ELSE {})

\* a run that restarts the producer when the sink fails
AfterSubmit_Restart(res) ==
    IF res = "canceled" THEN "stopped" ELSE IF res = "other" THEN "kill" ELSE "decode"

\* a run that submits the batch again when the sink fails
AfterSubmit_Retry(res) ==
    IF res = "canceled" THEN "stopped" ELSE IF res = "other" THEN "submit" ELSE "decode"

\* a run that goes on after context.Canceled
AfterSubmit_Ignore(res) == "decode"

\* where run goes after the submit call
AfterSubmit(res) == IF res = "canceled" THEN "stopped" ELSE "decode"

Submit ==
    /\ Running /\ pc = "submit"
    /\ \E res \in SubmitResults :
        /\ sent' = Append(sent, [run |-> runs, batch |-> Enrich(ents)])
        /\ lastSubmit' = res
        /\ pc' = AfterSubmit(res)
    /\ UNCHANGED <<buf, first, ents, cmd, live, runs, sidx, pos, cancelled, src>>
    /\ UNCHANGED <<returned, fragsRun, calls, lastDecode, freshAtLaunch, bufAtLaunch, firstAtLaunch,
                   readPastPreamble, strips, stripped, posAtStrip, keptAtStrip,
                   launchesSinceCancel>>

\* a Kill that does not reach the process
LiveAfterKill_NoKill(l, c) == l

\* the processes left running by cmd.Process.Kill()
LiveAfterKill(l, c) == l \ {c}

\* cmd.Process.Kill() after the break, then the outer loop starts over
Kill ==
    /\ Running /\ pc = "kill"
    /\ live' = LiveAfterKill(live, cmd)
    /\ pc' = "start"
    /\ UNCHANGED <<buf, first, ents, cmd, runs, sidx, pos, cancelled, src>>
    /\ UNCHANGED obsVars

(***************************************************************************)
(* main.                                                                   *)
(***************************************************************************)
\* utils.WaitForQuit() returns and main calls cancel().  main then syncs
\* and closes igst and returns, which ends the program wherever run is: the
\* behaviours of the program are those of the model, cut at that point.
Quit ==
    /\ ~cancelled /\ pc # "fatal"
    /\ cancelled' = TRUE
    /\ UNCHANGED <<pc, buf, first, ents, cmd, live, runs, sidx, pos, src>>
    /\ UNCHANGED obsVars

Next ==
    \/ LaunchPipeFail
    \/ LaunchStartFail
    \/ Sleep
    \/ LaunchOk
    \/ DecodeCall
    \/ PreRead
    \/ ReadErr
    \/ Read
    \/ Submit
    \/ Kill
    \/ Quit

Spec == Init /\ [][Next]_vars

(***************************************************************************)
(* Properties.                                                             *)
(***************************************************************************)
PayloadA == <<"{">> \o ObjA \o <<"}">>

PayloadB == <<"{">> \o ObjB \o <<"}">>

RECURSIVE JoinSep(_)
\* each piece followed by one separator
JoinSep(fs) == IF fs = <<>> THEN <<>> ELSE Head(fs) \o Separator \o JoinSep(Tail(fs))

\* a submit call was made in the current run
SubmittedThisRun == \E i \in 1..Len(sent) : sent[i].run = runs

\* the step is a submit call that returned res
SubmitReturned(res) == Len(sent') = Len(sent) + 1 /\ lastSubmit' = res

\* C1: after a decode error the supervisor recovers: when the producer
\* launched after the error has written a well-formed stream, decode has read
\* all of it, with at least one read after the preamble phase, and the run
\* has ended at the end of the stream, records of that run were submitted.
C1_RecoversAfterDecodeError ==
    (/\ pc = "kill"
     /\ runs >= 2
     /\ sidx \in WellFormedStreams
     /\ pos = Len(Stream)
     /\ readPastPreamble)
    => SubmittedThisRun

\* C2: at the first decode call of every producer run the decoder state is
\* fresh: the buffer is empty and the preamble is not yet consumed.
C2_FreshStateEachRun ==
    (pc = "decode" /\ calls = 0) => (buf = <<>> /\ first = TRUE)

\* C3: on a fresh state the decode calls made on [{\n"a":1\n},{\n"b":2\n}]
\* until the read error return exactly {"a":1} then {"b":2}.
C3_SplitYieldsBothObjects ==
    (pc = "kill" /\ freshAtLaunch /\ sidx = 1 /\ lastDecode = "readerr")
    => returned = <<PayloadA, PayloadB>>

\* C4: on a fresh state, the payloads returned by the decode calls on a
\* stream up to its end are those returned when one read holds the whole
\* stream, however the stream is cut into reads.
C4_ChunkBoundaryInvariance ==
    (pc = "kill" /\ freshAtLaunch /\ lastDecode = "readerr")
    => returned = RunChunks(<<Stream>>)

\* C5: after every decode call that returns without error, the bytes read
\* from the stream are the preamble, each piece emitted followed by one
\* separator, and the buffer; the buffer holds no complete separator.
C5_ByteConservation ==
    pc = "submit" =>
        /\ StreamRead = Preamble \o JoinSep(fragsRun) \o buf
        /\ IndexSep(buf) = 0

\* C6: on a fresh decoder state exactly the first three bytes of the stream
\* are removed, once, whatever reads it takes to get them: nothing is removed
\* before three bytes are there, the bytes read beyond the third stay in the
\* buffer, and the pop never happens a second time.
C6_PreambleStrippedOnce ==
    /\ strips <= 1
    /\ first => strips = 0
    /\ ~first => strips = 1
    /\ (freshAtLaunch /\ first) => (buf = StreamRead /\ Len(buf) < PreambleLen)
    /\ (freshAtLaunch /\ ~first) =>
          /\ stripped = Take(Stream, PreambleLen)
          /\ stripped = Preamble
          /\ keptAtStrip = SubSeq(Stream, PreambleLen + 1, posAtStrip)

\* C6 witness: a fresh state took the preamble from a read that brought more
\* than the third byte, after a read that brought less than three
C6_Witness ==
    /\ freshAtLaunch /\ ~first
    /\ posAtStrip = PreambleLen + 1
    /\ keptAtStrip = <<QT>>
    /\ pc = "read"

\* C7: once cancel() is called the loop ends within one decode-submit cycle,
\* also while launches keep failing: the supervisor does not begin a second
\* launch attempt after the cancellation.
C7_CancelStopsLoop == launchesSinceCancel <= 1

\* C8: when run has returned after the cancellation, no producer process it
\* started is left without a Kill.
C8_CleanTeardown == pc = "stopped" => live = {}

\* C9: a submit call that returns an error other than the cancellation leaves
\* the supervisor streaming: the process is not killed, none is launched, the
\* decoder state is as it was, and the next decode call reads from the same
\* process.
C9_SubmitErrorKeepsProcess ==
    [][/\ SubmitReturned("other") =>
            /\ pc' = "decode"
            /\ cmd' = cmd /\ cmd \in live' /\ live' = live /\ runs' = runs
            /\ buf' = buf /\ first' = first /\ sidx' = sidx /\ pos' = pos
       /\ (pc = "decode" /\ lastSubmit = "other" /\ pc' # "decode") =>
            /\ pc' \in {"pre_read", "read"}
            /\ cmd' = cmd /\ cmd \in live' /\ runs' = runs
      ]_vars

\* C9 witness: after a submit error the same process gave the next batch
C9_Witness ==
    /\ pc = "submit"
    /\ lastSubmit = "other"
    /\ Len(sent) >= 1
    /\ sent[Len(sent)].run = runs
    /\ cmd \in live
    /\ ents # <<>>

\* C10: a submit call that returns the cancellation error stops the
\* supervisor at once, and a stopped supervisor makes no decode call, no
\* submit call and no launch.
C10_CancelErrorIsTerminal ==
    [][/\ SubmitReturned("canceled") => pc' = "stopped"
       /\ pc = "stopped" =>
            /\ pc' = "stopped"
            /\ sent' = sent /\ calls' = calls /\ runs' = runs /\ pos' = pos
            /\ launchesSinceCancel' = launchesSinceCancel
      ]_vars

\* C10 witness: run has returned on context.Canceled
C10_Witness ==
    /\ pc = "stopped"
    /\ lastSubmit = "canceled"
    /\ cancelled

\* some piece that decode would consume from b compacts and a later one
\* does not
GoodBeforeBad(b) ==
    \E i, j \in 1..(Len(Split(b)) - 1) :
        /\ i < j
        /\ Compact(Wrap(Split(b)[i])).ok
        /\ ~Compact(Wrap(Split(b)[j])).ok

\* C11: a decode call in which json.Compact fails on a piece returns an
\* error and no record, also when earlier pieces of the call were compacted;
\* nothing of that call is submitted, run goes on to kill the producer.
C11_DecodeAllOrNothing ==
    [][/\ (pc = "read" /\ lastDecode' = "compacterr" /\ pc' = "kill") =>
            /\ ents' = <<>>
            /\ returned' = returned
            /\ sent' = sent
       /\ (pc = "kill" /\ lastDecode = "compacterr") =>
            /\ ents' = <<>>
            /\ sent' = sent
            /\ pc' \in {"kill", "start"}
      ]_vars

\* C11 witness: the call failed on a piece that came after a good one
C11_Witness ==
    /\ pc = "kill"
    /\ lastDecode = "compacterr"
    /\ GoodBeforeBad(buf)
    /\ ents = <<>>

\* C12: no failure inside the loop of run ends the program: a failure to get
\* the output pipe, a failed launch, a decode error and a submit error are
\* retried or logged.
C12_NoFailureIsFatal == pc # "fatal"

\* C13: decode returns a record as soon as the buffer holds it: on a run
\* that began with a fresh state, decode never waits for a read while the
\* buffer holds a piece followed by a complete separator.
C13_EmitsWithoutFurtherRead ==
    (freshAtLaunch /\ pc = "read") => IndexSep(buf) = 0

\* C14: a decode call that returns without error returns at least one
\* record, the end of the input is an error, and no empty batch is submitted.
C14_NoEmptyBatch ==
    /\ pc = "submit" => (Len(ents) >= 1 /\ lastDecode = "ok")
    /\ pc = "kill" => (ents = <<>> /\ lastDecode \in {"readerr", "compacterr"})
    /\ \A i \in 1..Len(sent) : Len(sent[i].batch) >= 1

\* C14 witness: a second decode call of a run waited for its separator and
\* returned one record, which was submitted
C14_Witness ==
    /\ pc = "decode"
    /\ calls = 2
    /\ Len(returned) = 2
    /\ Len(sent) = 2
    /\ Len(sent[2].batch) = 1

\* C15: every record of every batch handed to the sink has a payload, the
\* resolved tag and the configured source (nil without one), and its payload
\* is the one decode returned: enrichment leaves the payload bytes alone.
C15_EnrichedRecords ==
    [][/\ \A i \in 1..Len(sent') : \A j \in 1..Len(sent'[i].batch) :
            /\ Len(sent'[i].batch[j].Data) >= 2
            /\ sent'[i].batch[j].Tag = Tag
            /\ sent'[i].batch[j].SRC = src
       /\ Len(sent') = Len(sent) + 1 =>
            /\ pc = "submit"
            /\ Len(sent'[Len(sent')].batch) = Len(ents)
            /\ \A j \in 1..Len(ents) : sent'[Len(sent')].batch[j].Data = ents[j]
            /\ ents' = ents
      ]_vars

\* C15 witness: two batches went to the sink with the source override set,
\* carrying the payloads decode returned
C15_Witness ==
    /\ src = SrcOverride
    /\ Len(sent) = 2
    /\ sent[1].batch[1].Data = PayloadA
    /\ sent[2].batch[1].Data = PayloadB
    /\ sent[2].batch[1].SRC = SrcOverride
    /\ sent[2].batch[1].Tag = Tag

\* C16: a delay comes before every relaunch of the producer: run reaches
\* the top of its loop again only from the sleep, never straight from a
\* decode error.
C16_DelayBeforeRelaunch ==
    [][(pc' = "start" /\ pc # "start") => pc = "sleep"]_vars

\* C17: at most one producer started by run is without a Kill, and it is the
\* current one; at the top of the loop and during the sleep after a failed
\* launch there is none, so the Kill of a process comes before the next launch.
C17_AtMostOneLive ==
    /\ Cardinality(live) <= 1
    /\ live \subseteq {cmd}
    /\ pc \in {"start", "sleep", "fatal"} => live = {}

\* C17 witness: the second producer is running and the first was killed
C17_Witness ==
    /\ runs = 2
    /\ live = {2}
    /\ pc = "read"

\* C18: the cancellation is seen only by the submit call: cancel() changes
\* nothing but ctx, and run stops only on a submit call that returns
\* context.Canceled; from every other place it goes on as without it.
C18_CancelSeenOnlyAtSubmit ==
    [][/\ cancelled' # cancelled =>
            /\ cancelled'
            /\ UNCHANGED <<pc, buf, first, ents, cmd, live, runs, sidx, pos, src>>
       /\ (pc' = "stopped" /\ pc # "stopped") =>
            /\ pc = "submit"
            /\ cancelled
            /\ lastSubmit' = "canceled"
       /\ (cancelled /\ pc = "sleep" /\ pc' # "sleep") => pc' = "start"
       /\ (cancelled /\ pc = "kill" /\ pc' # "kill") => pc' = "start"
       /\ (cancelled /\ pc = "decode" /\ pc' # "decode") => pc' \in {"pre_read", "read"}
      ]_vars

\* C18 witness: after cancel() run launched a producer and reads from it
C18_Witness ==
    /\ cancelled
    /\ launchesSinceCancel >= 1
    /\ pc = "read"
    /\ cmd \in live

RECURSIVE SentData(_, _)
\* the payloads of the batches submitted in run r, from batch i on, in the
\* order of the submit calls
SentData(r, i) ==
    IF i > Len(sent) THEN <<>>
    ELSE (IF sent[i].run = r
          THEN [j \in 1..Len(sent[i].batch) |-> sent[i].batch[j].Data]
          ELSE <<>>) \o SentData(r, i + 1)

\* the batch decode has returned and run has not yet submitted
Pending == IF pc = "submit" THEN ents ELSE <<>>

\* the bytes the decoder has worked on in the current run: what buf held at
\* the launch, then what was read from the process
Fed == bufAtLaunch \o StreamRead

====
